---- MODULE Spec2Model ----
(***************************************************************************)
(* Model of fabrikate's git clone cache (core/git.go): the global cache of *)
(* gitCloneResult futures, the GitAccessTokens table, the goroutine        *)
(* started by gitCache.cloneRepo and its caller CloneRepo.                 *)
(*                                                                         *)
(* Go strings are sequences of one-character strings, so that cacheKey's   *)
(* formatting and the credential-injection regular expression are          *)
(* computed character by character.                                        *)
(***************************************************************************)
EXTENDS Integers, Sequences, FiniteSets, TLC

\* Number of CloneRepo calls issued during the run.
NumCalls == 2
\* threads that call GitAccessTokens.Set and GitAccessTokens.Get directly
NumSetters == 2
NumGetters == 1

\* Number of GitAccessTokens.Set calls issued during the run.
MaxSets == 1

Calls == 1..NumCalls

----------------------------------------------------------------------------
\* String values

EmptyStr == <<>>
master == <<"m", "a", "s", "t", "e", "r">>
head == <<"h", "e", "a", "d">>
SchemeSep == <<":", "/", "/">>
http == <<"h", "t", "t", "p">>
https == <<"h", "t", "t", "p", "s">>

\* https://h/r : no embedded credentials
RepoPlain == https \o SchemeSep \o <<"h", "/", "r">>
\* https://u:p@h/r : credentials embedded in the authority
RepoCred == https \o SchemeSep \o <<"u", ":", "p", "@", "h", "/", "r">>
\* http://h/r@v : no embedded credentials, an '@' in the path
RepoPathAt == http \o SchemeSep \o <<"h", "/", "r", "@", "v">>

Repos == {RepoPlain, RepoCred, RepoPathAt}
\* <<commit, branch>> of a request: neither given, and both given with the
\* values the cache key defaults to
Refs == {<<EmptyStr, EmptyStr>>, <<head, master>>}
Tokens == {<<"T">>}

\* error values (Go's nil is Nil)
Nil == "nil"
ErrUUID == "uuid.NewRandom failed"
ErrClone == "git clone failed"
ErrCheckout == "git checkout failed"
ErrAbs == "filepath.Abs failed"
ErrCopy == "copy failed"
ErrLstat == "lstat : no such file or directory"

----------------------------------------------------------------------------
\* Pure functions

\* the key without the defaulting of the branch
cacheKeyNoBranchDefault(repo, branch, commit) ==
    LET c == IF Len(commit) = 0 THEN head ELSE commit
    IN  repo \o <<"@">> \o branch \o <<":">> \o c

\* fmt.Sprintf("%v@%v:%v", repo, branch, commit) after defaulting
cacheKey(repo, branch, commit) ==
    LET b == IF Len(branch) = 0 THEN master ELSE branch
        c == IF Len(commit) = 0 THEN head ELSE commit
    IN  repo \o <<"@">> \o b \o <<":">> \o c

HasPrefix(s, p) == Len(s) >= Len(p) /\ SubSeq(s, 1, Len(p)) = p

\* position of the first ch in s, 0 when there is none
IndexOf(s, ch) ==
    IF \E i \in 1..Len(s) : s[i] = ch
    THEN CHOOSE i \in 1..Len(s) : s[i] = ch /\ \A j \in 1..(i - 1) : s[j] # ch
    ELSE 0

\* pattern.FindStringSubmatch(repo) for "^(https?)://([^@]+@)?(.+)$":
\* <<>> when there is no match, else <<group 1, group 2, group 3>>.
\* Group 2 is greedy and optional: it takes everything up to and including
\* the first '@' when at least one character precedes that '@' and at least
\* one follows it (for group 3); otherwise it is empty.
FindStringSubmatch(repo) ==
    LET protocol == IF HasPrefix(repo, https \o SchemeSep) THEN https
                    ELSE IF HasPrefix(repo, http \o SchemeSep) THEN http
                    ELSE EmptyStr
        rest == SubSeq(repo, Len(protocol) + Len(SchemeSep) + 1, Len(repo))
        at == IndexOf(rest, "@")
    IN  IF protocol = EmptyStr \/ Len(rest) = 0 THEN <<>>
        ELSE IF at >= 2 /\ at < Len(rest)
             THEN <<protocol, SubSeq(rest, 1, at), SubSeq(rest, at + 1, Len(rest))>>
             ELSE <<protocol, EmptyStr, rest>>

\* The repo argument of the clone command, given the result of
\* GitAccessTokens.Get(repo)
InjectToken(repo, token, exists) ==
    LET matches == FindStringSubmatch(repo)
    IN  IF exists /\ matches # <<>>
        THEN matches[1] \o SchemeSep \o token \o <<"@">> \o matches[3]
        ELSE repo

\* path.Join(os.TempDir(), randomFolderName.String()): one fresh name per
\* goroutine
EmptyPath == <<>>
TempPath(c) == <<"tmp", c>>
\* intoPath of call c: every call has a destination of its own
IntoPath(c) == <<"into", c>>

----------------------------------------------------------------------------
\* State

NoArgs == [repo |-> EmptyStr, commit |-> EmptyStr, branch |-> EmptyStr]
NoRef == [kind |-> "none", id |-> 0]
\* &cloneResult of goroutine c, and the &gitCloneResult{Error: err} it sends
\* on a failure
FutureRef(c) == [kind |-> "future", id |-> c]
ErrorRef(c) == [kind |-> "error", id |-> c]
NoCmd == [run |-> FALSE]
\* cacheKey on its own: the two requests whose keys are compared
KeySlots == {1, 2}
\* GenerateHelmComponent: no call yet, and nothing returned yet
NoComponent == [configOk |-> TRUE, namespace |-> "absent", command |-> "ok", output |-> <<>>]
NoReturn == [manifest |-> <<>>, err |-> Nil, panic |-> FALSE]
\* (token, exists) of a map read that finds no entry
NotFound == [token |-> EmptyStr, exists |-> FALSE]
\* the arguments of a thread that is in no call
NoReq == [repo |-> EmptyStr, token |-> EmptyStr]

\* a sync.RWMutex: the holder of the write lock and the holders of the read
\* lock. The holders are the goroutine of a call and the threads that call
\* GitAccessTokens.Set and GitAccessTokens.Get directly.
NoHolder == <<>>
Goroutine(c) == <<"go", c>>
Setter(i) == <<"set", i>>
Getter(j) == <<"get", j>>
Setters == {Setter(i) : i \in 1..NumSetters}
Getters == {Getter(j) : j \in 1..NumGetters}
FreeMutex == [w |-> NoHolder, r |-> {}]
\* Lock() and RLock() return once the mutex admits the holder; a holder that
\* already has the lock goes on
Lockable(l, h) == l.w = h \/ (l.w = NoHolder /\ l.r = {})
\* an RLock() that does not wait for the writer
RLockableAlways(l, h) == TRUE
RLockable(l, h) == h \in l.r \/ l.w = NoHolder
\* the mutex after Lock(), RLock(), and after Unlock() or RUnlock() of h
Lock(l, h) == [l EXCEPT !.w = h]
RLock(l, h) == [l EXCEPT !.r = @ \cup {h}]
\* an Unlock() or RUnlock() that is left out
KeepLocked(l, h) == l
Release(l, h) == [w |-> IF l.w = h THEN NoHolder ELSE l.w, r |-> l.r \ {h}]
\* the content of a directory: its state ("absent", "cloning", "switching",
\* "complete", "broken" for a clone directory; "partial" for a copy that
\* stopped half way), the directory the content was made in, and whether its
\* user has edited it since
NoTree == [state |-> "absent", from |-> EmptyPath, edited |-> FALSE]
Paths == {TempPath(c) : c \in Calls} \cup {IntoPath(c) : c \in Calls}

VARIABLES
    tokens,       \* GitAccessTokens.tokens
    sets,         \* number of GitAccessTokens.Set calls so far
    cache,        \* cache.cache: cacheToken -> reference to a gitCloneResult
    cloneResult,  \* the gitCloneResult each goroutine allocates at line 115
    errResult,    \* Error of the gitCloneResult each goroutine sends on failure
    args,         \* arguments of each CloneRepo call
    gpc,          \* position of the goroutine of cloneRepo
    cpc,          \* position of the caller in CloneRepo
    found,        \* goroutine local: cloneResult returned by cache.get
    tokenSeen,    \* goroutine local: (token, exists) of GitAccessTokens.Get
    err,          \* goroutine local: the error that ended the worker
    cloneCmd,     \* the git clone invocation of each goroutine
    checkoutCmd,  \* the git checkout invocation of each goroutine
    result,       \* caller local: the value received from the channel
    clonePath,    \* caller local: result.get()
    copySrc,      \* source directory handed to copy.Copy, EmptyPath if none
    copied,       \* whether the caller reached copy.Copy
    ret,          \* return value of CloneRepo
    seenBefore,   \* history: the goroutines that had inserted into the cache
                  \* when this goroutine did its cache.get
    fs,           \* file system: the content of every clone directory and
                  \* of every destination
    mu,           \* cache.mu and GitAccessTokens.mu: the writer and the
                  \* readers that hold each sync.RWMutex
    tpc,          \* position of each thread that calls Set or Get directly
    treq,         \* its arguments
    tres,         \* what the Get of each getter returned
    tstart,       \* history: the entry of its key when the Get was called
    tsince,       \* history: the entries written under its key since
    tinvoked,     \* history: the keys Set has been called with
    kreq,         \* cacheKey: the (repo, branch, commit) of two requests
    kkey,         \* cacheKey: the key returned for each
    hpc,          \* GenerateHelmComponent: position
    hin,          \* GenerateHelmComponent: the component and what the
                  \* templating command will do
    herr,         \* GenerateHelmComponent: local err
    hout,         \* GenerateHelmComponent: local stringManifests
    hret          \* GenerateHelmComponent: (manifest, err) returned

\* the file system
fsVars == <<fs>>

\* the threads that use the token table directly
tokVars == <<tpc, treq, tres, tstart, tsince, tinvoked>>

\* cacheKey and GenerateHelmComponent on their own
keyVars == <<kreq, kkey>>
helmVars == <<hpc, hin, herr, hout, hret>>
pureVars == <<keyVars, helmVars>>

\* state of the specifications of single functions further down
auxVars == <<tokVars, pureVars>>

vars == <<tokens, sets, cache, cloneResult, errResult, args, gpc, cpc, found,
          tokenSeen, err, cloneCmd, checkoutCmd, result, clonePath, copySrc,
          copied, ret, seenBefore, fsVars, mu, auxVars>>

Init ==
    /\ tokens = <<>>
    /\ sets = 0
    /\ cache = <<>>
    /\ cloneResult = [c \in Calls |-> [ClonePath |-> EmptyPath, Error |-> Nil, mu |-> "none"]]
    /\ errResult = [c \in Calls |-> Nil]
    /\ args = [c \in Calls |-> NoArgs]
    /\ gpc = [c \in Calls |-> "idle"]
    /\ cpc = [c \in Calls |-> "idle"]
    /\ found = [c \in Calls |-> NoRef]
    /\ tokenSeen = [c \in Calls |-> [token |-> EmptyStr, exists |-> FALSE]]
    /\ err = [c \in Calls |-> Nil]
    /\ cloneCmd = [c \in Calls |-> NoCmd]
    /\ checkoutCmd = [c \in Calls |-> NoCmd]
    /\ result = [c \in Calls |-> NoRef]
    /\ clonePath = [c \in Calls |-> EmptyPath]
    /\ copySrc = [c \in Calls |-> EmptyPath]
    /\ copied = [c \in Calls |-> FALSE]
    /\ ret = [c \in Calls |-> Nil]
    /\ seenBefore = [c \in Calls |-> {}]
    /\ fs = [p \in Paths |-> NoTree]
    /\ mu = [cache |-> FreeMutex, tokens |-> FreeMutex]
    /\ tpc = [h \in Setters \cup Getters |-> "idle"]
    /\ treq = [h \in Setters \cup Getters |-> NoReq]
    /\ tres = [h \in Getters |-> NotFound]
    /\ tstart = [h \in Getters |-> NotFound]
    /\ tsince = [h \in Getters |-> {}]
    /\ tinvoked = {}
    /\ kreq = [i \in KeySlots |-> NoArgs]
    /\ kkey = [i \in KeySlots |-> EmptyStr]
    /\ hpc = "idle"
    /\ hin = NoComponent
    /\ herr = Nil
    /\ hout = <<>>
    /\ hret = NoReturn

\* the gitCloneResult a reference points to
Deref(ref) ==
    IF ref.kind = "future" THEN cloneResult[ref.id]
    ELSE [ClonePath |-> EmptyPath, Error |-> errResult[ref.id], mu |-> "unlocked"]

cacheToken(c) == cacheKey(args[c].repo, args[c].branch, args[c].commit)

\* goroutines that have executed cache.set
Inserted == {c \in Calls : cloneResult[c].mu # "none"}

----------------------------------------------------------------------------
\* t.tokens[repo] = token, line 71
Upsert(repo, token) ==
    [r \in DOMAIN tokens \cup {repo} |-> IF r = repo THEN token ELSE tokens[r]]

\* GitAccessTokens.Set(repo, token), lines 69-73, called by thread h: the
\* write and the Unlock, once Lock() has returned
SetBy(h, repo, token) ==
    /\ Lockable(mu.tokens, h)
    /\ tokens' = Upsert(repo, token)
    /\ mu' = [mu EXCEPT !.tokens = Release(@, h)]

\* GitAccessTokens.Set(repo, token)
Set(repo, token) ==
    /\ sets < MaxSets
    /\ sets' = sets + 1
    /\ SetBy(Setter(sets), repo, token)
    /\ UNCHANGED <<cache, cloneResult, errResult, args, gpc, cpc, found,
                   tokenSeen, err, cloneCmd, checkoutCmd, result, clonePath,
                   copySrc, copied, ret, seenBefore, fsVars, auxVars>>

\* GitAccessTokens.Get(repo)
Get(repo) ==
    IF repo \in DOMAIN tokens
    THEN [token |-> tokens[repo], exists |-> TRUE]
    ELSE NotFound

\* cache.get that reports a settled future without a path as absent
cacheGetRetry(key) ==
    IF key \in DOMAIN cache
       /\ ~(Deref(cache[key]).mu = "unlocked" /\ Deref(cache[key]).ClonePath = EmptyPath)
    THEN [value |-> cache[key], ok |-> TRUE]
    ELSE [value |-> NoRef, ok |-> FALSE]

\* cache.get(cacheToken)
cacheGet(key) ==
    IF key \in DOMAIN cache THEN [value |-> cache[key], ok |-> TRUE]
    ELSE [value |-> NoRef, ok |-> FALSE]

\* cache.set(cacheToken, cloneResult)
cacheSet(key, ref) ==
    [k \in DOMAIN cache \cup {key} |-> IF k = key THEN ref ELSE cache[k]]

\* CloneRepo(repo, commit, intoPath, branch) is called: cloneRepo makes the
\* channel, starts the goroutine and the caller blocks on the receive.
\* Calls are numbered in the order they are issued.
Call(c, repo, commit, branch) ==
    /\ cpc[c] = "idle"
    /\ \A d \in Calls : d < c => cpc[d] # "idle"
    /\ args' = [args EXCEPT ![c] = [repo |-> repo, commit |-> commit, branch |-> branch]]
    /\ cpc' = [cpc EXCEPT ![c] = "recv"]
    /\ gpc' = [gpc EXCEPT ![c] = "lookup"]
    /\ UNCHANGED <<tokens, sets, cache, cloneResult, errResult, found,
                   tokenSeen, err, cloneCmd, checkoutCmd, result, clonePath,
                   copySrc, copied, ret, seenBefore, fsVars, mu, auxVars>>

\* the caller of call c receives ref from the channel (line 209)
Receive(c, ref) ==
    /\ cpc[c] = "recv"
    /\ result' = [result EXCEPT ![c] = ref]
    /\ cpc' = [cpc EXCEPT ![c] = "get"]

\* goroutine, lines 132/164/179/190: a new gitCloneResult{Error: e} goes to
\* the caller and nothing is written to the future stored in the cache; the
\* deferred function is still to run
SendErr(c, e) ==
    /\ err' = [err EXCEPT ![c] = e]
    /\ errResult' = [errResult EXCEPT ![c] = e]
    /\ cloneResult' = cloneResult
    /\ Receive(c, ErrorRef(c))
    /\ gpc' = [gpc EXCEPT ![c] = "unlock"]

\* goroutine, lines 196-199: the path is saved in the future and the future
\* goes to the caller; the deferred function is still to run
Settle(c) ==
    /\ cloneResult' = [cloneResult EXCEPT ![c].ClonePath = cloneCmd[c].dir]
    /\ Receive(c, FutureRef(c))
    /\ gpc' = [gpc EXCEPT ![c] = "unlock"]
    /\ UNCHANGED <<err, errResult>>

\* goroutine, lines 104-112: the cache lookup; a cached result goes to the
\* caller, which is blocked on the receive of line 209
Lookup(c) ==
    /\ gpc[c] = "lookup"
    /\ RLockable(mu.cache, Goroutine(c))
    /\ mu' = [mu EXCEPT !.cache = Release(@, Goroutine(c))]
    /\ LET r == cacheGet(cacheToken(c))
       IN  /\ found' = [found EXCEPT ![c] = r.value]
           /\ IF r.ok
              THEN /\ Receive(c, r.value)
                   /\ gpc' = [gpc EXCEPT ![c] = "done"]
              ELSE /\ gpc' = [gpc EXCEPT ![c] = "insert"]
                   /\ UNCHANGED <<result, cpc>>
    /\ seenBefore' = [seenBefore EXCEPT ![c] = Inserted]
    /\ UNCHANGED <<tokens, sets, cache, cloneResult, errResult, args,
                   tokenSeen, err, cloneCmd, checkoutCmd, clonePath,
                   copySrc, copied, ret, fsVars, auxVars>>

\* a future that is stored in the cache without being locked first
NewFutureUnlocked == [ClonePath |-> EmptyPath, Error |-> Nil, mu |-> "unlocked"]

\* lines 115-116: cloneResult := gitCloneResult{} and cloneResult.mu.Lock()
NewFuture == [ClonePath |-> EmptyPath, Error |-> Nil, mu |-> "locked"]

\* goroutine, lines 115-121: a new locked future is stored in the cache
Insert(c) ==
    /\ gpc[c] = "insert"
    /\ Lockable(mu.cache, Goroutine(c))
    /\ mu' = [mu EXCEPT !.cache = Release(@, Goroutine(c))]
    /\ cloneResult' = [cloneResult EXCEPT ![c] = NewFuture]
    /\ cache' = cacheSet(cacheToken(c), FutureRef(c))
    /\ gpc' = [gpc EXCEPT ![c] = "token"]
    /\ UNCHANGED <<tokens, sets, errResult, args, cpc, found, tokenSeen, err,
                   cloneCmd, checkoutCmd, result, clonePath, copySrc, copied,
                   ret, seenBefore, fsVars, auxVars>>

\* clone arguments with "--depth 1" whatever the commit
CloneArgsShallow(c, tk) ==
    [run |-> TRUE,
     repo |-> InjectToken(args[c].repo, tk.token, tk.exists),
     depth1 |-> TRUE,
     hasBranch |-> (Len(args[c].branch) # 0),
     branch |-> args[c].branch,
     dir |-> TempPath(c)]

\* clone arguments that take the branch from the normalised cache key
CloneArgsKeyBranch(c, tk) ==
    [run |-> TRUE,
     repo |-> InjectToken(args[c].repo, tk.token, tk.exists),
     depth1 |-> (Len(args[c].commit) = 0),
     hasBranch |-> TRUE,
     branch |-> IF Len(args[c].branch) = 0 THEN master ELSE args[c].branch,
     dir |-> TempPath(c)]

\* the arguments of the git clone command, lines 124-169
CloneArgs(c, tk) ==
    [run |-> TRUE,
     repo |-> InjectToken(args[c].repo, tk.token, tk.exists),
     depth1 |-> (Len(args[c].commit) = 0),
     hasBranch |-> (Len(args[c].branch) # 0),
     branch |-> args[c].branch,
     dir |-> TempPath(c)]

\* the clone directory of goroutine c after a step of git: git clone creates
\* it and fills it, git checkout rewrites its working tree
GitWrites(c, state) ==
    [fs EXCEPT ![TempPath(c)] = [state |-> state, from |-> TempPath(c), edited |-> FALSE]]

\* goroutine, lines 124-171: the token lookup, the clone arguments, the
\* random folder name (uuid.NewRandom may fail; regexp.Compile of the fixed
\* pattern does not), and the start of the git clone process
StartClone(c, uuidOk) ==
    /\ gpc[c] = "token"
    /\ RLockable(mu.tokens, Goroutine(c))
    /\ mu' = [mu EXCEPT !.tokens = Release(@, Goroutine(c))]
    /\ LET tk == Get(args[c].repo)
       IN  /\ tokenSeen' = [tokenSeen EXCEPT ![c] = tk]
           /\ IF uuidOk
              THEN /\ cloneCmd' = [cloneCmd EXCEPT ![c] = CloneArgs(c, tk)]
                   /\ gpc' = [gpc EXCEPT ![c] = "cloning"]
                   /\ fs' = GitWrites(c, "cloning")
                   /\ UNCHANGED <<err, errResult, cloneResult, result, cpc>>
              ELSE /\ SendErr(c, ErrUUID)
                   /\ cloneCmd' = cloneCmd
                   /\ fs' = fs
    /\ UNCHANGED <<tokens, sets, cache, args, found, checkoutCmd, clonePath,
                   copySrc, copied, ret, seenBefore, auxVars>>

\* the checkout command of lines 186-187
CheckoutArgs(c) ==
    [run |-> TRUE, commit |-> args[c].commit, dir |-> cloneCmd[c].dir]

\* goroutine, lines 177-187 and 196-199: git clone exits; on success with a
\* commit the git checkout process is started, without one the future is
\* settled
CloneExit(c, ok) ==
    /\ gpc[c] = "cloning"
    /\ IF ~ok
       THEN /\ SendErr(c, ErrClone)
            /\ checkoutCmd' = checkoutCmd
            /\ fs' = GitWrites(c, "broken")
       ELSE IF Len(args[c].commit) # 0
       THEN /\ checkoutCmd' = [checkoutCmd EXCEPT ![c] = CheckoutArgs(c)]
            /\ gpc' = [gpc EXCEPT ![c] = "checkout"]
            /\ fs' = GitWrites(c, "switching")
            /\ UNCHANGED <<err, errResult, cloneResult, result, cpc>>
       ELSE /\ Settle(c)
            /\ checkoutCmd' = checkoutCmd
            /\ fs' = GitWrites(c, "complete")
    /\ UNCHANGED <<tokens, sets, cache, args, found, tokenSeen, cloneCmd,
                   clonePath, copySrc, copied, ret, seenBefore, mu, auxVars>>

\* goroutine, lines 188-199: git checkout exits
CheckoutExit(c, ok) ==
    /\ gpc[c] = "checkout"
    /\ IF ok THEN Settle(c) ELSE SendErr(c, ErrCheckout)
    /\ fs' = GitWrites(c, IF ok THEN "complete" ELSE "broken")
    /\ UNCHANGED <<tokens, sets, cache, args, found, tokenSeen, cloneCmd,
                   checkoutCmd, clonePath, copySrc, copied, ret, seenBefore,
                   mu, auxVars>>

\* an unlock that only the success path reaches
UnlockedOnSuccess(r) == IF r.ClonePath = EmptyPath THEN r.mu ELSE "unlocked"

\* the future's mutex after the deferred function has run, on every path
Unlocked(r) == "unlocked"

\* goroutine, lines 117-120: the deferred unlock and close
Unlock(c) ==
    /\ gpc[c] = "unlock"
    /\ cloneResult' = [cloneResult EXCEPT ![c].mu = Unlocked(cloneResult[c])]
    /\ gpc' = [gpc EXCEPT ![c] = "done"]
    /\ UNCHANGED <<tokens, sets, cache, errResult, args, cpc, found,
                   tokenSeen, err, cloneCmd, checkoutCmd, result, clonePath,
                   copySrc, copied, ret, seenBefore, fsVars, mu, auxVars>>

\* a get() that reads ClonePath without taking the read lock
CanRLockAlways(r) == TRUE

\* mu.RLock() of line 27 returns only while no writer holds mu
CanRLock(r) == r.mu = "unlocked"

\* caller, line 210: result.get() takes the read lock of the received
\* gitCloneResult, so it waits while the owner holds the write lock
ResultGet(c) ==
    /\ cpc[c] = "get"
    /\ CanRLock(Deref(result[c]))
    /\ clonePath' = [clonePath EXCEPT ![c] = Deref(result[c]).ClonePath]
    /\ cpc' = [cpc EXCEPT ![c] = "check"]
    /\ UNCHANGED <<tokens, sets, cache, cloneResult, errResult, args, gpc,
                   found, tokenSeen, err, cloneCmd, checkoutCmd, result,
                   copySrc, copied, ret, seenBefore, fsVars, mu, auxVars>>

\* caller, lines 211-213: the error of the received gitCloneResult is returned
ReturnError(c) ==
    /\ cpc[c] = "check"
    /\ Deref(result[c]).Error # Nil
    /\ ret' = [ret EXCEPT ![c] = Deref(result[c]).Error]
    /\ cpc' = [cpc EXCEPT ![c] = "returned"]
    /\ UNCHANGED <<tokens, sets, cache, cloneResult, errResult, args, gpc,
                   found, tokenSeen, err, cloneCmd, checkoutCmd, result,
                   clonePath, copySrc, copied, seenBefore, fsVars,
                   mu, auxVars>>

\* caller, lines 216-219: filepath.Abs fails
AbsFails(c) ==
    /\ cpc[c] = "check"
    /\ Deref(result[c]).Error = Nil
    /\ ret' = [ret EXCEPT ![c] = ErrAbs]
    /\ cpc' = [cpc EXCEPT ![c] = "returned"]
    /\ UNCHANGED <<tokens, sets, cache, cloneResult, errResult, args, gpc,
                   found, tokenSeen, err, cloneCmd, checkoutCmd, result,
                   clonePath, copySrc, copied, seenBefore, fsVars,
                   mu, auxVars>>

\* copy.Copy with its arguments in the other order
copyCopySwapped(src, dst, ok) ==
    IF src = EmptyPath THEN fs
    ELSE [fs EXCEPT ![src] = [state |-> IF ok THEN fs[dst].state ELSE "partial",
                              from |-> fs[dst].from,
                              edited |-> fs[dst].edited]]

\* the file system after copy.Copy(src, dst) of line 221: the tree under src
\* is read and written anew under dst, whole when the copy succeeds; the
\* Lstat of an empty src fails before anything is written
copyCopy(src, dst, ok) ==
    IF src = EmptyPath THEN fs
    ELSE [fs EXCEPT ![dst] = [state |-> IF ok THEN fs[src].state ELSE "partial",
                              from |-> fs[src].from,
                              edited |-> fs[src].edited]]

\* caller, lines 220-225: copy.Copy(clonePath, intoPath). The copy of the
\* empty path fails in its first Lstat; any other copy succeeds or fails.
Copy(c, ok) ==
    /\ cpc[c] = "check"
    /\ Deref(result[c]).Error = Nil
    /\ copied' = [copied EXCEPT ![c] = TRUE]
    /\ copySrc' = [copySrc EXCEPT ![c] = clonePath[c]]
    /\ ret' = [ret EXCEPT ![c] = IF clonePath[c] = EmptyPath THEN ErrLstat
                                 ELSE IF ok THEN Nil ELSE ErrCopy]
    /\ cpc' = [cpc EXCEPT ![c] = "returned"]
    /\ fs' = copyCopy(clonePath[c], IntoPath(c), ok)
    /\ UNCHANGED <<tokens, sets, cache, cloneResult, errResult, args, gpc,
                   found, tokenSeen, err, cloneCmd, checkoutCmd, result,
                   clonePath, seenBefore, mu, auxVars>>

\* after CloneRepo has returned nil, the caller changes what is under its
\* destination
Mutate(c) ==
    /\ cpc[c] = "returned"
    /\ ret[c] = Nil
    /\ ~fs[IntoPath(c)].edited
    /\ fs' = [fs EXCEPT ![IntoPath(c)].edited = TRUE]
    /\ UNCHANGED <<tokens, sets, cache, cloneResult, errResult, args, gpc,
                   cpc, found, tokenSeen, err, cloneCmd, checkoutCmd, result,
                   clonePath, copySrc, copied, ret, seenBefore, mu, auxVars>>

\* one step of the goroutine or of the caller of call c
Step(c) ==
    \/ Lookup(c)
    \/ Insert(c)
    \/ \E uuidOk \in BOOLEAN : StartClone(c, uuidOk)
    \/ \E ok \in BOOLEAN : CloneExit(c, ok)
    \/ \E ok \in BOOLEAN : CheckoutExit(c, ok)
    \/ Unlock(c)
    \/ ResultGet(c)
    \/ ReturnError(c)
    \/ \E ok \in BOOLEAN : Copy(c, ok)
    \/ AbsFails(c)

Next ==
    \/ \E repo \in Repos, token \in Tokens : Set(repo, token)
    \/ \E c \in Calls, repo \in Repos, ref \in Refs :
          Call(c, repo, ref[1], ref[2])
    \/ \E c \in Calls : Step(c)
    \/ \E c \in Calls : Mutate(c)

Spec == Init /\ [][Next]_vars

\* every started goroutine and caller keeps running (the Go scheduler), and
\* every external process terminates
LiveSpec == Spec /\ \A c \in Calls : WF_vars(Step(c))

----------------------------------------------------------------------------
\* GitAccessTokens under threads that call Set and Get directly, one lock
\* operation at a time

\* the variables of the clone cache
cloneVars == <<sets, cache, cloneResult, errResult, args, gpc, cpc, found,
               tokenSeen, err, cloneCmd, checkoutCmd, result, clonePath,
               copySrc, copied, ret, seenBefore, fsVars>>

TokRepos == {RepoPlain, RepoCred}
TokTokens == {<<"T">>, <<"U">>}
\* what a map read that races a map write may give
Torn == <<"?">>

\* Set(repo, token) is called
SetCall(h, repo, token) ==
    /\ tpc[h] = "idle"
    /\ tpc' = [tpc EXCEPT ![h] = "lock"]
    /\ treq' = [treq EXCEPT ![h] = [repo |-> repo, token |-> token]]
    /\ tinvoked' = tinvoked \cup {repo}
    /\ UNCHANGED <<tokens, mu, tres, tstart, tsince, cloneVars,
                   pureVars>>

\* line 70: t.mu.Lock() returns
SetLock(h) ==
    /\ tpc[h] = "lock"
    /\ Lockable(mu.tokens, h)
    /\ mu' = [mu EXCEPT !.tokens = Lock(@, h)]
    /\ tpc' = [tpc EXCEPT ![h] = "write"]
    /\ UNCHANGED <<tokens, treq, tres, tstart, tsince, tinvoked, cloneVars,
                   pureVars>>

\* lines 71-72: the write and t.mu.Unlock()
SetWrite(h) ==
    /\ tpc[h] = "write"
    /\ SetBy(h, treq[h].repo, treq[h].token)
    /\ tpc' = [tpc EXCEPT ![h] = "idle"]
    /\ treq' = [treq EXCEPT ![h] = NoReq]
    /\ tsince' = [g \in Getters |->
                     IF tpc[g] \in {"rlock", "read"} /\ treq[g].repo = treq[h].repo
                     THEN tsince[g] \cup {[token |-> treq[h].token, exists |-> TRUE]}
                     ELSE tsince[g]]
    /\ UNCHANGED <<tres, tstart, tinvoked, cloneVars,
                   pureVars>>

\* Get(repo) is called
GetCall(h, repo) ==
    /\ tpc[h] \in {"idle", "done"}
    /\ tpc' = [tpc EXCEPT ![h] = "rlock"]
    /\ treq' = [treq EXCEPT ![h] = [repo |-> repo, token |-> EmptyStr]]
    /\ tstart' = [tstart EXCEPT ![h] = Get(repo)]
    /\ tsince' = [tsince EXCEPT ![h] = {}]
    /\ UNCHANGED <<tokens, mu, tres, tinvoked, cloneVars,
                   pureVars>>

\* line 62: t.mu.RLock() returns
GetRLock(h) ==
    /\ tpc[h] = "rlock"
    /\ RLockable(mu.tokens, h)
    /\ mu' = [mu EXCEPT !.tokens = RLock(@, h)]
    /\ tpc' = [tpc EXCEPT ![h] = "read"]
    /\ UNCHANGED <<tokens, treq, tres, tstart, tsince, tinvoked, cloneVars,
                   pureVars>>

\* what the map read of line 63 can give: the entry, or, when it races a
\* write (a data race on a Go map), anything
ReadOutcomes(repo) ==
    IF mu.tokens.w = NoHolder THEN {Get(repo)}
    ELSE {Get(repo), NotFound, [token |-> Torn, exists |-> TRUE]}

\* lines 63-65: the read, t.mu.RUnlock() and the return
GetRead(h) ==
    /\ tpc[h] = "read"
    /\ \E v \in ReadOutcomes(treq[h].repo) : tres' = [tres EXCEPT ![h] = v]
    /\ mu' = [mu EXCEPT !.tokens = Release(@, h)]
    /\ tpc' = [tpc EXCEPT ![h] = "done"]
    /\ UNCHANGED <<tokens, treq, tstart, tsince, tinvoked, cloneVars,
                   pureVars>>

TokenNext ==
    \/ \E h \in Setters, repo \in TokRepos, token \in TokTokens : SetCall(h, repo, token)
    \/ \E h \in Setters : SetLock(h)
    \/ \E h \in Setters : SetWrite(h)
    \/ \E h \in Getters, repo \in TokRepos : GetCall(h, repo)
    \/ \E h \in Getters : GetRLock(h)
    \/ \E h \in Getters : GetRead(h)

TokenSpec == Init /\ [][TokenNext]_vars

----------------------------------------------------------------------------
\* The clone cache with the map mutexes taken and released in steps of their
\* own: every map operation of the goroutines above runs between the return
\* of Lock() or RLock() and the Unlock() or RUnlock() that follows it.

\* the locks thread h holds
HeldBy(h) ==
    {m \in {"cache", "tokens"} : mu[m].w = h \/ h \in mu[m].r}

\* gitCache.get, line 41: cache.mu.RLock() returns
CacheRLock(c) ==
    /\ gpc[c] = "lookup"
    /\ HeldBy(Goroutine(c)) = {}
    /\ RLockable(mu.cache, Goroutine(c))
    /\ mu' = [mu EXCEPT !.cache = RLock(@, Goroutine(c))]
    /\ UNCHANGED <<tokens, cloneVars, auxVars>>

\* gitCache.set, line 49: cache.mu.Lock() returns
CacheLock(c) ==
    /\ gpc[c] = "insert"
    /\ HeldBy(Goroutine(c)) = {}
    /\ Lockable(mu.cache, Goroutine(c))
    /\ mu' = [mu EXCEPT !.cache = Lock(@, Goroutine(c))]
    /\ UNCHANGED <<tokens, cloneVars, auxVars>>

\* GitAccessTokens.Get, line 62: t.mu.RLock() returns
TokensRLock(c) ==
    /\ gpc[c] = "token"
    /\ HeldBy(Goroutine(c)) = {}
    /\ RLockable(mu.tokens, Goroutine(c))
    /\ mu' = [mu EXCEPT !.tokens = RLock(@, Goroutine(c))]
    /\ UNCHANGED <<tokens, cloneVars, auxVars>>

\* GitAccessTokens.Set, line 70: t.mu.Lock() returns
TokensLock ==
    /\ sets < MaxSets
    /\ HeldBy(Setter(sets)) = {}
    /\ Lockable(mu.tokens, Setter(sets))
    /\ mu' = [mu EXCEPT !.tokens = Lock(@, Setter(sets))]
    /\ UNCHANGED <<tokens, cloneVars, auxVars>>

\* one step of the goroutine or of the caller of call c, the map operations
\* with their mutex held
FineStep(c) ==
    \/ CacheRLock(c)
    \/ "cache" \in HeldBy(Goroutine(c)) /\ Lookup(c)
    \/ CacheLock(c)
    \/ "cache" \in HeldBy(Goroutine(c)) /\ Insert(c)
    \/ TokensRLock(c)
    \/ "tokens" \in HeldBy(Goroutine(c)) /\ \E uuidOk \in BOOLEAN : StartClone(c, uuidOk)
    \/ \E ok \in BOOLEAN : CloneExit(c, ok)
    \/ \E ok \in BOOLEAN : CheckoutExit(c, ok)
    \/ Unlock(c)
    \/ ResultGet(c)
    \/ ReturnError(c)
    \/ \E ok \in BOOLEAN : Copy(c, ok)
    \/ AbsFails(c)

FineNext ==
    \/ TokensLock
    \/ "tokens" \in HeldBy(Setter(sets)) /\ \E repo \in Repos, token \in Tokens : Set(repo, token)
    \/ \E c \in Calls, repo \in Repos, ref \in Refs :
          Call(c, repo, ref[1], ref[2])
    \/ \E c \in Calls : FineStep(c)

FineSpec == Init /\ [][FineNext]_vars

----------------------------------------------------------------------------
\* cacheKey on its own, for requests whose strings contain the separators

KeyRepos == {<<"a">>, <<"a", "@", "b">>}
KeyBranches == {EmptyStr, master, <<"c">>, <<"b", "@", "c">>}
KeyCommits == {EmptyStr, head, <<"d">>}

\* request i is keyed: cacheToken := cacheKey(repo, branch, commit), line 104
KeyRequest(i, repo, branch, commit) ==
    /\ kreq' = [kreq EXCEPT ![i] = [repo |-> repo, commit |-> commit, branch |-> branch]]
    /\ kkey' = [kkey EXCEPT ![i] = cacheKey(repo, branch, commit)]
    /\ UNCHANGED <<tokens, mu, cloneVars, tokVars, helmVars>>

KeyNext ==
    \E i \in KeySlots, repo \in KeyRepos, branch \in KeyBranches, commit \in KeyCommits :
        KeyRequest(i, repo, branch, commit)

KeySpec == Init /\ [][KeyNext]_vars

----------------------------------------------------------------------------
\* GenerateHelmComponent and AddNamespaceToManifests (generators/helm.go)

ErrMarshal == "yaml: marshal failed"
ErrExit == "exit status 1"
ErrStart == "exec: \"docker\": executable file not found in $PATH"

\* a manifest document: "empty" (nothing but white space or comments, or
\* text yaml.Unmarshal rejects, its error being dropped), a mapping without
\* metadata, a mapping with a metadata mapping, and a mapping
\* whose metadata is not a mapping
DocKinds == {"empty", "plain", "meta", "badmeta"}
MaxDocs == 2
\* what the templating command can print: up to MaxDocs documents
Outputs == UNION {[1..n -> DocKinds] : n \in 0..MaxDocs}
\* component.Config.Config["namespace"]: no entry, a string, something else
NamespaceKinds == {"absent", "string", "other"}
\* the templating command: runs and exits with 0, exits with another
\* status (*exec.ExitError), or cannot be started (*exec.Error)
CommandOutcomes == {"ok", "exit", "start"}

\* strings.Split(manifests, "\n---"), line 18: the documents of the text; an
\* empty text is one empty document
SplitManifests(output) == IF output = <<>> THEN <<"empty">> ELSE output

RECURSIVE Namespaced(_)
\* lines 20-40: empty documents are dropped, the namespace is set in the
\* metadata of the others, and each is appended to the result
Namespaced(docs) ==
    IF docs = <<>> THEN <<>>
    ELSE IF Head(docs) = "empty" THEN Namespaced(Tail(docs))
    ELSE <<[doc |-> Head(docs), namespaced |-> (Head(docs) = "meta")]>>
             \o Namespaced(Tail(docs))

\* AddNamespaceToManifests(manifests, namespace), lines 17-43: the type
\* assertion of line 29 panics on a metadata that is no mapping; otherwise
\* the result is (namespacedManifests, nil), yaml.Marshal of a mapping that
\* was just parsed not failing
AddNamespaceToManifests(output) ==
    LET docs == SplitManifests(output)
    IN  IF \E k \in DOMAIN docs : docs[k] = "badmeta"
        THEN [manifest |-> <<>>, err |-> Nil, panic |-> TRUE]
        ELSE [manifest |-> Namespaced(docs), err |-> Nil, panic |-> FALSE]

\* the text of the command's output as it is returned without injection
Raw(output) == [k \in DOMAIN output |-> [doc |-> output[k], namespaced |-> FALSE]]

\* GenerateHelmComponent(component) is called, lines 53-81: the config is
\* marshalled (lines 56-60) and the name and namespace are read; the type
\* assertion of line 79 panics on a namespace that is no string
HelmCall(configOk, namespace, command, output) ==
    /\ hpc = "idle"
    /\ hin' = [configOk |-> configOk, namespace |-> namespace,
               command |-> command, output |-> output]
    /\ IF ~configOk
       THEN /\ hret' = [manifest |-> <<>>, err |-> ErrMarshal, panic |-> FALSE]
            /\ hpc' = "returned"
       ELSE IF namespace = "other"
       THEN /\ hret' = [manifest |-> <<>>, err |-> Nil, panic |-> TRUE]
            /\ hpc' = "returned"
       ELSE /\ hret' = hret
            /\ hpc' = "template"
    /\ UNCHANGED <<herr, hout, tokens, mu, cloneVars, tokVars, keyVars>>

\* lines 85-94: the templating command has run; an *exec.ExitError is
\* returned, any other error stays in err and the function goes on with
\* the output it has
HelmTemplate ==
    /\ hpc = "template"
    /\ herr' = CASE hin.command = "ok" -> Nil
                 [] hin.command = "exit" -> ErrExit
                 [] hin.command = "start" -> ErrStart
    /\ hout' = IF hin.command = "ok" THEN hin.output ELSE <<>>
    /\ IF hin.command = "exit"
       THEN /\ hret' = [manifest |-> <<>>, err |-> ErrExit, panic |-> FALSE]
            /\ hpc' = "returned"
       ELSE /\ hret' = hret
            /\ hpc' = "inject"
    /\ UNCHANGED <<hin, tokens, mu, cloneVars, tokVars, keyVars>>

\* lines 96-101: the namespace injection, when the config has a namespace,
\* and the return
HelmReturn ==
    /\ hpc = "inject"
    /\ hret' = IF hin.namespace # "absent"
               THEN AddNamespaceToManifests(hout)
               ELSE [manifest |-> Raw(hout), err |-> herr, panic |-> FALSE]
    /\ hpc' = "returned"
    /\ UNCHANGED <<hin, herr, hout, tokens, mu, cloneVars, tokVars, keyVars>>

HelmNext ==
    \/ \E configOk \in BOOLEAN, namespace \in NamespaceKinds,
          command \in CommandOutcomes, output \in Outputs :
          HelmCall(configOk, namespace, command, output)
    \/ HelmTemplate
    \/ HelmReturn

HelmSpec == Init /\ [][HelmNext]_vars

----------------------------------------------------------------------------
\* Vocabulary of the properties

\* the identity of a request: (repo, branch or "master", commit or "head")
Identity(c) ==
    <<args[c].repo,
      IF args[c].branch = EmptyStr THEN master ELSE args[c].branch,
      IF args[c].commit = EmptyStr THEN head ELSE args[c].commit>>

Started(c) == cpc[c] # "idle"
Returned(c) == cpc[c] = "returned"

\* goroutine c is the worker of its identity: it missed the cache and stored
\* its own future
Owner(c) == cloneResult[c].mu # "none"

\* call d was handed the future of worker c by the cache
WaitsOn(d, c) == d # c /\ found[d] = FutureRef(c)

\* the worker's clone or checkout failed
CloneFailed(c) == err[c] \in {ErrClone, ErrCheckout}

\* the part of an http(s) URL after "scheme://", and its authority (up to
\* the first '/')
IsHttp(repo) == HasPrefix(repo, https \o SchemeSep) \/ HasPrefix(repo, http \o SchemeSep)
SchemeOf(repo) == IF HasPrefix(repo, https \o SchemeSep) THEN https ELSE http
AfterScheme(repo) == SubSeq(repo, Len(SchemeOf(repo)) + Len(SchemeSep) + 1, Len(repo))
Authority(repo) ==
    LET rest == AfterScheme(repo)
        slash == IndexOf(rest, "/")
    IN  IF slash = 0 THEN rest ELSE SubSeq(rest, 1, slash - 1)
HasCredentials(repo) == IndexOf(Authority(repo), "@") # 0

----------------------------------------------------------------------------
\* C1: for one identity, at most one git clone is ever started, however the
\* concurrent fetch calls interleave (two first-time requesters never both
\* become owners).
C1_SingleFlight ==
    \A c, d \in Calls :
        (c # d /\ Started(c) /\ Started(d) /\ Identity(c) = Identity(d))
            => ~(cloneCmd[c].run /\ cloneCmd[d].run)

\* C2: when the clone or checkout of an identity's worker failed with error
\* E, the call that triggered it and every call that was handed its future,
\* waiting or arriving later, returns exactly E.
C2_FailurePropagation ==
    \A c, d \in Calls :
        (CloneFailed(c) /\ (d = c \/ WaitsOn(d, c)) /\ Returned(d))
            => ret[d] = err[c]

\* C3: every settled (unlocked) Outcome in the cache holds exactly one of a
\* non-empty clone path and a non-nil error.
C3_SettledOutcome ==
    \A k \in DOMAIN cache :
        LET o == Deref(cache[k])
        IN  o.mu = "unlocked" => ((o.ClonePath # EmptyPath) # (o.Error # Nil))

\* C4: any two CloneRepo calls of one identity that succeed copied from the
\* same clone directory.
C4_SamePath ==
    \A c, d \in Calls :
        (Returned(c) /\ Returned(d) /\ Identity(c) = Identity(d)
           /\ copied[c] /\ copied[d] /\ ret[c] = Nil /\ ret[d] = Nil)
            => copySrc[c] = copySrc[d]

\* C5: when a token is registered for a repo that already embeds credentials
\* in its authority, the clone command gets the repo string unchanged.
C5_CredentialedUntouched ==
    \A c \in Calls :
        (cloneCmd[c].run /\ tokenSeen[c].exists /\ IsHttp(args[c].repo)
           /\ HasCredentials(args[c].repo))
            => cloneCmd[c].repo = args[c].repo

\* C6: when a token T is registered for a credential-free http(s) repo
\* scheme://host/path, the clone command gets scheme://T@host/path; when no
\* token is registered it gets the repo unchanged and the miss is no error.
C6_TokenInjection ==
    \A c \in Calls :
        cloneCmd[c].run =>
            /\ (tokenSeen[c].exists /\ IsHttp(args[c].repo)
                  /\ ~HasCredentials(args[c].repo))
                 => cloneCmd[c].repo =
                        SchemeOf(args[c].repo) \o SchemeSep \o tokenSeen[c].token
                            \o <<"@">> \o AfterScheme(args[c].repo)
            /\ ~tokenSeen[c].exists => cloneCmd[c].repo = args[c].repo

\* C7: a fetch whose cache lookup comes after an Outcome of its identity was
\* inserted is served from the cache and starts no clone and no checkout,
\* whether the first attempt is in flight, succeeded or failed.
C7_NoSecondAttempt ==
    \A c, d \in Calls :
        (c \in seenBefore[d] /\ Identity(c) = Identity(d))
            => /\ ~cloneCmd[d].run
               /\ ~checkoutCmd[d].run
               /\ ~Owner(d)
               /\ gpc[d] = "done"

\* a later call of a failed identity has returned without a second attempt
C7_Witness ==
    \E c, d \in Calls :
        /\ c \in seenBefore[d] /\ Identity(c) = Identity(d)
        /\ CloneFailed(c) /\ gpc[c] = "done"
        /\ cloneResult[c].mu = "unlocked" /\ seenBefore[d] = {c}
        /\ Returned(d)

\* the clone of worker c has exited successfully
CloneSucceeded(c) ==
    cloneCmd[c].run /\ gpc[c] # "cloning" /\ err[c] # ErrClone

Collapsing(c, d) ==
    /\ args[c].repo = args[d].repo
    /\ {<<args[c].commit, args[c].branch>>, <<args[d].commit, args[d].branch>>}
          = {<<EmptyStr, EmptyStr>>, <<head, master>>}

\* C9: an empty branch is keyed as "master" and an empty commit as "head",
\* so fetch(repo, "", "") and fetch(repo, "master", "head") share one cache
\* entry: once one of them has inserted its Outcome, the other is handed an
\* Outcome stored under that key and starts no clone.
C9_KeyCollapsing ==
    /\ \A repo \in Repos, ref \in Refs :
          /\ cacheKey(repo, EmptyStr, ref[1]) = cacheKey(repo, master, ref[1])
          /\ cacheKey(repo, ref[2], EmptyStr) = cacheKey(repo, ref[2], head)
    /\ \A c, d \in Calls :
          (Started(c) /\ Started(d) /\ Collapsing(c, d)) =>
              /\ cacheToken(c) = cacheToken(d)
              /\ c \in seenBefore[d] =>
                    /\ ~cloneCmd[d].run
                    /\ \E e \in seenBefore[d] :
                          found[d] = FutureRef(e) /\ Identity(e) = Identity(c)
                    /\ cpc[d] # "recv" => result[d] = found[d]

\* fetch(repo, "master", "head") was handed the Outcome of fetch(repo, "", "")
C9_Witness ==
    \E c, d \in Calls :
        /\ args[c].commit = EmptyStr /\ args[c].branch = EmptyStr
        /\ args[d].commit = head /\ args[d].branch = master
        /\ args[c].repo = args[d].repo
        /\ result[d] = FutureRef(c)
        /\ Returned(d) /\ ret[d] = Nil

\* C10: under fair scheduling and terminating external commands every
\* CloneRepo call returns, owner and waiters alike (a call that has been
\* issued stays issued, so it returns if and only if, again and again, every
\* call issued so far has returned), and a finished worker leaves its
\* Outcome unlocked on the success path and on every failure path.
C10_Liveness ==
    /\ []<>(\A c \in Calls : Started(c) => Returned(c))
    /\ [](\A c \in Calls : (Owner(c) /\ gpc[c] = "done") => cloneResult[c].mu = "unlocked")

\* a caller that waited on a worker whose clone failed has returned
C10_Witness ==
    \E c, d \in Calls :
        /\ WaitsOn(d, c) /\ CloneFailed(c)
        /\ Returned(c) /\ Returned(d)

\* the goroutine whose clone directory is p
WorkerOf(p) == CHOOSE k \in Calls : TempPath(k) = p

\* C11: CloneRepo reads only a settled clone directory and writes only under
\* its own destination: a call that returned nil left under its destination
\* the whole tree of a complete clone of its identity; a destination changes
\* only by its own call and its own user, with every other path untouched,
\* and a clone directory changes only by its own worker before it settles,
\* never by a mutation under a destination.
C11_Independence ==
    /\ [](\A c \in Calls :
            /\ ~fs[TempPath(c)].edited
            /\ fs[TempPath(c)].from \in {EmptyPath, TempPath(c)}
            /\ fs[IntoPath(c)].edited => (Returned(c) /\ ret[c] = Nil)
            /\ (Returned(c) /\ ret[c] = Nil) =>
                  \E k \in Calls :
                      /\ Identity(k) = Identity(c)
                      /\ fs[TempPath(k)] =
                            [state |-> "complete", from |-> TempPath(k), edited |-> FALSE]
                      /\ fs[IntoPath(c)].state = "complete"
                      /\ fs[IntoPath(c)].from = TempPath(k))
    /\ [][\A c \in Calls :
            /\ fs'[IntoPath(c)] # fs[IntoPath(c)] =>
                  /\ cpc[c] \in {"check", "returned"}
                  /\ \A p \in Paths \ {IntoPath(c)} : fs'[p] = fs[p]
            /\ fs'[TempPath(c)] # fs[TempPath(c)] =>
                  gpc[c] \in {"token", "cloning", "checkout"}
            /\ (copied'[c] /\ ~copied[c] /\ clonePath[c] # EmptyPath) =>
                  /\ fs[clonePath[c]].state = "complete"
                  /\ gpc[WorkerOf(clonePath[c])] \in {"unlock", "done"}]_vars

\* two calls of one identity have both returned nil with a whole copy, and
\* one of the destinations has been edited since while the other has not
C11_Witness ==
    \E c, d \in Calls :
        /\ c # d /\ Identity(c) = Identity(d)
        /\ Returned(c) /\ ret[c] = Nil /\ Returned(d) /\ ret[d] = Nil
        /\ fs[IntoPath(c)].state = "complete" /\ fs[IntoPath(d)].state = "complete"
        /\ fs[IntoPath(c)].from = fs[IntoPath(d)].from
        /\ fs[IntoPath(c)].edited /\ ~fs[IntoPath(d)].edited

\* the identities requested so far
Requested == {Identity(c) : c \in {d \in Calls : Started(d)}}

\* C12: cache entries are never evicted or replaced: a key that maps to an
\* Outcome maps to that same Outcome object in the next state, hence in
\* every later one, and no more Outcomes are ever created than distinct
\* identities were requested.
C12_NeverReplaced ==
    /\ [](Cardinality(Inserted) <= Cardinality(Requested))
    /\ [][\A k \in DOMAIN cache : k \in DOMAIN cache' /\ cache'[k] = cache[k]]_vars

\* the git processes of worker k have ended: the clone, and the checkout
\* when the clone succeeded and a commit was requested
GitEnded(k) ==
    /\ gpc[k] \in {"unlock", "done"}
    /\ fs[TempPath(k)].state \notin {"cloning", "switching"}
    /\ (err[k] = Nil /\ args[k].commit # EmptyStr) =>
          (checkoutCmd[k].run /\ fs[TempPath(k)].state = "complete")

\* C14: a caller that has read the path of the Outcome it received, or has
\* started the copy, did so after the worker that owns the Outcome finished
\* its clone and, if a commit was requested, its checkout and released the
\* Outcome; this holds for the owner's caller and for callers served from
\* the cache.
C14_ReadAfterSettlement ==
    \A c \in Calls :
        /\ copied[c] => cpc[c] = "returned"
        /\ cpc[c] \in {"check", "returned"} =>
              /\ result[c].kind \in {"future", "error"}
              /\ GitEnded(result[c].id)
              /\ result[c].kind = "future" =>
                    /\ gpc[result[c].id] = "done"
                    /\ cloneResult[result[c].id].mu = "unlocked"
                    /\ clonePath[c] = cloneResult[result[c].id].ClonePath

\* a caller served from the cache has started its copy from the directory
\* of a worker that cloned and checked out a commit
C14_Witness ==
    \E c, d \in Calls :
        /\ WaitsOn(d, c)
        /\ gpc[c] = "done"
        /\ args[c].commit # EmptyStr /\ checkoutCmd[c].run
        /\ copied[d] /\ copySrc[d] = TempPath(c)

\* C15: the worker locks its Outcome, then stores it in the cache, and only
\* then starts an external process: an Outcome in the cache whose worker
\* has not finished is exclusively locked, every worker that started a
\* command had stored its Outcome before, and while a clone or checkout of
\* an identity runs the cache holds an Outcome of that identity under its
\* key.
C15_InsertBeforeIO ==
    /\ \A k \in DOMAIN cache :
          /\ cache[k].kind = "future"
          /\ gpc[cache[k].id] # "done" => cloneResult[cache[k].id].mu = "locked"
    /\ \A c \in Calls :
          /\ (cloneCmd[c].run \/ checkoutCmd[c].run) => Owner(c)
          /\ (Owner(c) /\ gpc[c] # "done") => cloneResult[c].mu = "locked"
          /\ gpc[c] \in {"cloning", "checkout"} =>
                /\ cacheToken(c) \in DOMAIN cache
                /\ Identity(cache[cacheToken(c)].id) = Identity(c)

\* a checkout is running while a second call of the identity has been
\* handed the locked Outcome and waits for it
C15_Witness ==
    \E c, d \in Calls :
        /\ gpc[c] = "checkout"
        /\ cache[cacheToken(c)] = FutureRef(c)
        /\ cloneResult[c].mu = "locked"
        /\ WaitsOn(d, c) /\ cpc[d] = "get"

\* C16: no recursive copy is started for an identity whose clone or checkout
\* failed: the caller that triggered the failed worker and every caller that
\* was handed its Outcome, waiting or arriving later, has not reached
\* copy.Copy.
C16_NoCopyAfterFailure ==
    \A c, d \in Calls :
        (CloneFailed(c) /\ (d = c \/ WaitsOn(d, c))) => ~copied[d]

\* C18: the clone invocation carries the branch option with value b exactly
\* when the request's branch is the non-empty string b; a request with an
\* empty branch passes no branch option, although its cache key is built
\* with the placeholder "master".
C18_BranchFlag ==
    \A c \in Calls :
        cloneCmd[c].run =>
            /\ cloneCmd[c].hasBranch <=> args[c].branch # EmptyStr
            /\ cloneCmd[c].hasBranch => cloneCmd[c].branch = args[c].branch
            /\ args[c].branch = EmptyStr =>
                  /\ ~cloneCmd[c].hasBranch
                  /\ cloneCmd[c].branch # master
                  /\ cacheToken(c) = cacheKey(args[c].repo, master, args[c].commit)

\* one clone has run without a branch option and one with the option master
C18_Witness ==
    \E c, d \in Calls :
        /\ cloneCmd[c].run /\ args[c].branch = EmptyStr /\ ~cloneCmd[c].hasBranch
        /\ cloneCmd[d].run /\ args[d].branch = master
        /\ cloneCmd[d].hasBranch /\ cloneCmd[d].branch = master

\* C13: Set(repo, token) upserts the entry of repo and leaves every other
\* key as it was; a finished Get returned the entry its key had when it was
\* called or one a Set wrote under that key since, so a Set that completed
\* before the Get was called is observed (or a later one); a Get of a key
\* that Set was never called with finds nothing; and a writer holds the
\* mutex alone.
C13_TokenTable ==
    /\ [](\A g \in Getters :
            tpc[g] = "done" =>
                /\ tres[g] \in {tstart[g]} \cup tsince[g]
                /\ treq[g].repo \notin tinvoked => tres[g] = NotFound)
    /\ [](mu.tokens.w # NoHolder => mu.tokens.r = {})
    /\ [][tokens' # tokens =>
            \E h \in Setters :
                /\ tpc[h] = "write"
                /\ DOMAIN tokens' = DOMAIN tokens \cup {treq[h].repo}
                /\ tokens'[treq[h].repo] = treq[h].token
                /\ \A r \in DOMAIN tokens \ {treq[h].repo} : tokens'[r] = tokens[r]]_vars

\* a Get returned the token a Set wrote under its key while the Get was
\* under way, over an older token, and the other key still has its entry
C13_Witness ==
    \E g \in Getters :
        /\ tpc[g] = "done"
        /\ tstart[g].exists
        /\ tres[g] \in tsince[g] /\ tres[g] # tstart[g]
        /\ DOMAIN tokens = TokRepos

\* the goroutine of call c is in a map operation of the cache or of the
\* token table
InMapOperation(c) == gpc[c] \in {"lookup", "insert", "token"}

Normalized(a) ==
    <<a.repo,
      IF a.branch = EmptyStr THEN master ELSE a.branch,
      IF a.commit = EmptyStr THEN head ELSE a.commit>>

\* C19: two requests whose normalized triples differ never get the same
\* cache key, also when their strings contain '@' or ':'.
C19_KeyInjective ==
    \A i, j \in KeySlots :
        (kkey[i] # EmptyStr /\ kkey[j] # EmptyStr
            /\ Normalized(kreq[i]) # Normalized(kreq[j]))
            => kkey[i] # kkey[j]

\* C20: whenever the templating command failed, by a non-zero exit or by
\* not starting, GenerateHelmComponent returns a non-nil error, with or
\* without a namespace in the component config.
C20_HelmErrorReported ==
    (hpc = "returned" /\ herr \in {ErrExit, ErrStart}) =>
        (~hret.panic /\ hret.err # Nil)

====
